---- MODULE Spec2Model ----
(***************************************************************************)
(* Model of lib/mpl_toolkits/axes_grid1/axes_grid.py: the layout planner   *)
(* of Grid and ImageGrid.  A grid is constructed step by step (pc is the   *)
(* position inside __init__), then set_axes_pad / set_label_mode may be    *)
(* called on the constructed object.  Python indices are kept 0-based:     *)
(* Python lists that are indexed are functions over 0..n-1, the divider's  *)
(* size lists h and v are TLA+ sequences whose Python position p is        *)
(* element p+1.                                                            *)
(***************************************************************************)
EXTENDS Integers, Sequences, FiniteSets

\* ---- bounds of the model ----
MaxRows == 2
MaxCols == 2
MaxPad == 1

\* ---- values ----
\* Python None in an axes slot; axes objects are numbered 1..ngrids in
\* creation order, colorbar axes are numbered by their list index.
None == 0

Classes == {"Grid", "ImageGrid"}
Directions == {"row", "column"}
\* a direction the constructor rejects
BadDirection == "diagonal"
Locations == {"left", "right", "top", "bottom"}
\* a colorbar location outside the documented four
BadLocation == "center"
\* cbar_mode: None is written "none"
CbarModes == {"none", "each", "single", "edge"}
LabelModes == {"all", "L", "1"}
PadValues == 0..MaxPad
\* rect arguments: a subplot code (Number/str/SubplotSpec) or a sequence of
\* the given length
Rects == {"code", "len2", "len3", "len4", "len5"}

VARIABLES
    pc,                 \* position in the program
    err,                \* the exception that ended construction, "" if none
    cls,                \* the class being constructed
    _nrows, _ncols, ngrids, _direction,
    _horiz_pad_size,    \* fixed_size of the shared Size.Fixed object
    _vert_pad_size,
    _colorbar_mode, _colorbar_location, _colorbar_pad,
    _divider,           \* the divider's size lists: [horizontal, vertical]
    axes_all, axes_column, axes_row, axes_llc,
    axes,               \* the Axes objects: id -> [locator, bottom, left, cax]
    cbar_axes,          \* the CbarAxes objects: index -> [locator, visible, position]
    fig_axes,           \* what Figure.add_axes has received
    last_axes_pad,      \* argument of the last set_axes_pad call, <<>> if none
    last_label_mode     \* argument of the last set_label_mode call, "" if none

selfvars == <<_nrows, _ncols, ngrids, _direction>>
padvars == <<_horiz_pad_size, _vert_pad_size>>
cbvars == <<_colorbar_mode, _colorbar_location, _colorbar_pad>>
slotvars == <<axes_all, axes_column, axes_row, axes_llc>>
histvars == <<last_axes_pad, last_label_mode>>
vars == <<pc, err, cls, selfvars, padvars, cbvars, _divider, slotvars, axes,
          cbar_axes, fig_axes, histvars>>

\* ---- helpers ----
Max(S) == CHOOSE x \in S : \A y \in S : y <= x
Min(S) == CHOOSE x \in S : \A y \in S : x <= y

\* An axes locator is the argument list of Divider.new_locator; an end index
\* that is not passed is absent from the record.
NoLocator == [unset |-> TRUE]
new_locator(nx, ny) == [nx |-> nx, ny |-> ny]
new_locator_ny1(nx, ny, ny1) == [nx |-> nx, ny |-> ny, ny1 |-> ny1]
new_locator_nx1(nx, nx1, ny) == [nx |-> nx, nx1 |-> nx1, ny |-> ny]

\* Entries of the divider's size lists.  src names the attribute the entry
\* was built from; a pad entry of src "_horiz_pad_size"/"_vert_pad_size" IS
\* the shared Size.Fixed object, every other entry is a fresh object.
Scaled(w) == [type |-> "Scaled", src |-> "axes", val |-> w]
\* a fresh Size.Fixed holding the current number instead of the shared object
HorizPadCopy == [type |-> "Fixed", src |-> "Size.Fixed", val |-> _horiz_pad_size]
HorizPadEntry == [type |-> "Fixed", src |-> "_horiz_pad_size", val |-> 0]
VertPadEntry == [type |-> "Fixed", src |-> "_vert_pad_size", val |-> 0]
AxesX(ax) == [type |-> "AxesX", src |-> "axes", val |-> ax]
AxesY(ax) == [type |-> "AxesY", src |-> "axes", val |-> ax]
CbarSizeEntry == [type |-> "Fraction", src |-> "_colorbar_size", val |-> 5]
CbarPadEntry(pad) == [type |-> "Fixed", src |-> "_colorbar_pad", val |-> pad]

\* Grid._get_col_row, with the attributes it reads as parameters.
\* the divisors of the two directions exchanged
_get_col_row_swapped(direction, nrows, ncols, n) ==
    IF direction = "column"
    THEN <<n \div ncols, n % ncols>>
    ELSE <<n % nrows, n \div nrows>>

_get_col_row(direction, nrows, ncols, n) ==
    IF direction = "column"
    THEN <<n \div nrows, n % nrows>>     \* col, row = divmod(n, nrows)
    ELSE <<n % ncols, n \div ncols>>     \* row, col = divmod(n, ncols)

ColRow(n) == _get_col_row(_direction, _nrows, _ncols, n)
ColOf(n) == ColRow(n)[1]
RowOf(n) == ColRow(n)[2]

\* cbook._check_in_list(values, direction=direction): raises ValueError
\* unless the value is one of values.
_check_in_list(values, x) == x \in values

\* ---- initial state: a figure, no grid yet ----
Init ==
    /\ pc = "start"
    /\ err = ""
    /\ cls = ""
    /\ _nrows = 0 /\ _ncols = 0 /\ ngrids = 0 /\ _direction = ""
    /\ _horiz_pad_size = 0 /\ _vert_pad_size = 0
    /\ _colorbar_mode = "" /\ _colorbar_location = "" /\ _colorbar_pad = 0
    /\ _divider = [horizontal |-> <<>>, vertical |-> <<>>]
    /\ axes_all = <<>> /\ axes_column = <<>> /\ axes_row = <<>>
    /\ axes_llc = None
    /\ axes = <<>>
    /\ cbar_axes = <<>>
    /\ fig_axes = {}
    /\ last_axes_pad = <<>>
    /\ last_label_mode = ""

Raise(e) == pc' = "raised" /\ err' = e

\* ---- __init__, step 1: geometry and ngrids ----
\* given = FALSE is ngrids=None; ngrids_arg is read only when given
InitGeometry(c, nr, nc, given, ngrids_arg) ==
    /\ pc = "start"
    /\ cls' = c
    /\ _nrows' = nr /\ _ncols' = nc
    /\ IF given /\ ~(0 < ngrids_arg /\ ngrids_arg <= nr * nc)
       THEN /\ Raise("Exception: ngrids")
            /\ UNCHANGED <<ngrids>>
       ELSE /\ ngrids' = (IF given THEN ngrids_arg ELSE nr * nc)
            /\ pc' = "init_axes_pad"
            /\ err' = err
    /\ UNCHANGED <<_direction, padvars, cbvars, _divider, slotvars, axes,
                   cbar_axes, fig_axes, histvars>>

\* ---- step 2: _init_axes_pad (np.broadcast_to(axes_pad, 2)) ----
_init_axes_pad(hpad, vpad) ==
    /\ pc = "init_axes_pad"
    /\ _horiz_pad_size' = hpad
    /\ _vert_pad_size' = vpad
    /\ pc' = (IF cls = "ImageGrid" THEN "init_colorbar" ELSE "check_direction")
    /\ UNCHANGED <<err, cls, selfvars, cbvars, _divider, slotvars, axes,
                   cbar_axes, fig_axes, histvars>>

\* ---- step 3 (ImageGrid): the colorbar attributes ----
\* pad_given = FALSE is cbar_pad=None
InitColorbar(mode, location, pad_given, cbar_pad) ==
    /\ pc = "init_colorbar"
    /\ _colorbar_mode' = mode
    /\ _colorbar_location' = location
    /\ _colorbar_pad' =
          (IF ~pad_given
           THEN (IF location \in {"left", "right"}
                 THEN _horiz_pad_size ELSE _vert_pad_size)
           ELSE cbar_pad)
    /\ pc' = "check_direction"
    /\ UNCHANGED <<err, cls, selfvars, padvars, _divider, slotvars, axes,
                   cbar_axes, fig_axes, histvars>>

\* ---- step 4: direction ----
\* the direction stored without the check
CheckDirectionUnchecked(direction) ==
    /\ pc = "check_direction"
    /\ _direction' = direction
    /\ pc' = "make_divider"
    /\ UNCHANGED <<err, cls, _nrows, _ncols, ngrids, padvars, cbvars, _divider,
                   slotvars, axes, cbar_axes, fig_axes, histvars>>

CheckDirection(direction) ==
    /\ pc = "check_direction"
    /\ IF _check_in_list({"column", "row"}, direction)
       THEN /\ _direction' = direction
            /\ pc' = "make_divider"
            /\ err' = err
       ELSE /\ Raise("ValueError: direction")
            /\ UNCHANGED _direction
    /\ UNCHANGED <<cls, _nrows, _ncols, ngrids, padvars, cbvars, _divider,
                   slotvars, axes, cbar_axes, fig_axes, histvars>>

\* ---- step 5: the divider ----
\* SubplotDivider and Divider differ in how the position is given; both
\* start from horizontal=[], vertical=[].
MakeDivider(rect) ==
    /\ pc = "make_divider"
    /\ IF rect \in {"code", "len3"}
       THEN /\ _divider' = [horizontal |-> <<>>, vertical |-> <<>>]
            /\ pc' = "create_axes" /\ err' = err
       ELSE IF rect = "len4"
       THEN /\ _divider' = [horizontal |-> <<>>, vertical |-> <<>>]
            /\ pc' = "create_axes" /\ err' = err
       ELSE /\ Raise("Exception: rect")
            /\ UNCHANGED _divider
    /\ UNCHANGED <<cls, selfvars, padvars, cbvars, slotvars, axes,
                   cbar_axes, fig_axes, histvars>>

\* ---- step 6: the axes and the slot arrays ----
\* axes_array after the creation loop: slot (row, col) holds the axes made
\* by the last i that _get_col_row maps there, None if there is none.
axes_array ==
    [r \in 0..(_nrows - 1) |->
      [c \in 0..(_ncols - 1) |->
        LET hits == {i \in 0..(ngrids - 1) : ColRow(i) = <<c, r>>}
        IN IF hits = {} THEN None ELSE Max(hits) + 1]]

\* axes_array.ravel().tolist(): C order whatever the direction
Ravel(a) ==
    [k \in 0..(_nrows * _ncols - 1) |-> a[k \div _ncols][k % _ncols]]

\* axes_array.T.tolist()
Transpose(a) ==
    [c \in 0..(_ncols - 1) |-> [r \in 0..(_nrows - 1) |-> a[r][c]]]

NewAxes == [locator |-> NoLocator, bottom |-> TRUE, left |-> TRUE, cax |-> -1]

CreateAxes ==
    /\ pc = "create_axes"
    /\ axes' = [id \in 1..ngrids |-> NewAxes]
    /\ axes_all' = Ravel(axes_array)
    /\ axes_column' = Transpose(axes_array)
    /\ axes_row' = axes_array
    /\ axes_llc' = axes_array[_nrows - 1][0]
    /\ pc' = (IF cls = "ImageGrid" THEN "create_cbar_axes" ELSE "update_locators")
    /\ UNCHANGED <<err, cls, selfvars, padvars, cbvars, _divider,
                   cbar_axes, fig_axes, histvars>>

\* ---- step 7 (ImageGrid): the colorbar axes ----
\* Keys of the axis dictionary of an mpl_axes.Axes.
AxisDictKeys == {"bottom", "top", "left", "right"}

\* CbarAxesBase._config_axes, run by cla() while the axes is initialised:
\* ax.axis[self.orientation] is a dictionary lookup, a KeyError for any
\* other orientation.
_config_axes(orientation) == orientation \in AxisDictKeys

NewCbarAxes == [locator |-> NoLocator, visible |-> TRUE, position |-> "rect"]

\* colorbar axes made without configuring their orientation axis
CreateCbarAxesUnconfigured ==
    /\ pc = "create_cbar_axes"
    /\ cbar_axes' = [i \in 0..(ngrids - 1) |-> NewCbarAxes]
    /\ pc' = "update_locators"
    /\ UNCHANGED <<err, cls, selfvars, padvars, cbvars, _divider, slotvars,
                   axes, fig_axes, histvars>>

CreateCbarAxes ==
    /\ pc = "create_cbar_axes"
    /\ IF ngrids > 0 /\ ~_config_axes(_colorbar_location)
       THEN /\ Raise("KeyError: orientation")
            /\ UNCHANGED cbar_axes
       ELSE /\ cbar_axes' = [i \in 0..(ngrids - 1) |-> NewCbarAxes]
            /\ pc' = "update_locators" /\ err' = err
    /\ UNCHANGED <<cls, selfvars, padvars, cbvars, _divider, slotvars, axes,
                   fig_axes, histvars>>

\* ---- step 8: _update_locators ----
\* The loop "for i in range(ngrids): ... axes_all[i].set_axes_locator(...)"
\* run up to, not including, iteration stop (plus iteration stop itself when
\* also_stop): every axes reached gets the locator loc[i].
AxesAfterLocatorLoop(stop, also_stop, loc) ==
    [id \in DOMAIN axes |->
        LET done == {i \in 0..(ngrids - 1) :
                        /\ (i < stop \/ (i = stop /\ also_stop))
                        /\ axes_all[i] = id}
        IN IF done = {} THEN axes[id]
           ELSE [axes[id] EXCEPT !.locator = loc[Max(done)]]]

\* the position of an axes cell taken before its pad was appended
RECURSIVE GridSizesBeforePad(_, _)
GridSizesBeforePad(pad, k) ==
    IF k = 0 THEN [sizes |-> <<>>, ax_pos |-> <<>>]
    ELSE LET p == GridSizesBeforePad(pad, k - 1)
             h1 == IF p.sizes # <<>> THEN Append(p.sizes, pad) ELSE p.sizes
         IN [sizes |-> Append(h1, Scaled(1)),
             ax_pos |-> Append(p.ax_pos, Len(p.sizes))]

\* Grid._update_locators: the sizes of one direction after k passes of the
\* loop, and the position of each axes cell.
RECURSIVE GridSizes(_, _)
GridSizes(pad, k) ==
    IF k = 0 THEN [sizes |-> <<>>, ax_pos |-> <<>>]
    ELSE LET p == GridSizes(pad, k - 1)
             h1 == IF p.sizes # <<>> THEN Append(p.sizes, pad) ELSE p.sizes
         IN [sizes |-> Append(h1, Scaled(1)),
             ax_pos |-> Append(p.ax_pos, Len(h1))]

Grid_update_locators ==
    /\ pc = "update_locators"
    /\ cls = "Grid"
    /\ LET H == GridSizes(HorizPadEntry, _ncols)
           V == GridSizes(VertPadEntry, _nrows)
           loc == [i \in 0..(ngrids - 1) |->
                     new_locator(H.ax_pos[ColOf(i) + 1],
                                 V.ax_pos[(_nrows - 1 - RowOf(i)) + 1])]
           fails == {i \in 0..(ngrids - 1) : axes_all[i] = None}
           stop == IF fails = {} THEN ngrids ELSE Min(fails)
       IN /\ axes' = AxesAfterLocatorLoop(stop, FALSE, loc)
          /\ IF stop < ngrids
             THEN /\ Raise("AttributeError: set_axes_locator on None")
                  /\ UNCHANGED _divider
             ELSE /\ _divider' = [_divider EXCEPT !.horizontal = H.sizes,
                                                  !.vertical = V.sizes]
                  /\ pc' = "add_all" /\ err' = err
    /\ UNCHANGED <<cls, selfvars, padvars, cbvars, slotvars, cbar_axes,
                   fig_axes, histvars>>

\* ImageGrid._update_locators, the loop over the columns: the state after
\* k passes, started from the sizes h0 the single-colorbar prelude left.
RECURSIVE ImageGridH(_, _)
ImageGridH(h0, k) ==
    IF k = 0 THEN [sizes |-> h0, ax_pos |-> <<>>, cb_pos |-> <<>>]
    ELSE LET p == ImageGridH(h0, k - 1)
             col == k - 1
             ax == axes_row[0][col]
             h1 == IF p.sizes # <<>> THEN Append(p.sizes, HorizPadEntry)
                   ELSE p.sizes
             sz == IF ax # None THEN AxesX(ax) ELSE AxesX(axes_all[0])
             before == /\ (_colorbar_mode = "each"
                           \/ (_colorbar_mode = "edge" /\ col = 0))
                       /\ _colorbar_location = "left"
             h2 == IF before
                   THEN h1 \o <<CbarSizeEntry, CbarPadEntry(_colorbar_pad)>>
                   ELSE h1
             cb1 == IF before THEN Append(p.cb_pos, Len(h1)) ELSE p.cb_pos
             h3 == Append(h2, sz)
             after == /\ (_colorbar_mode = "each"
                          \/ (_colorbar_mode = "edge" /\ col = _ncols - 1))
                      /\ _colorbar_location = "right"
             h4 == IF after
                   THEN h3 \o <<CbarPadEntry(_colorbar_pad), CbarSizeEntry>>
                   ELSE h3
             cb2 == IF after THEN Append(cb1, Len(h3) + 1) ELSE cb1
         IN [sizes |-> h4, ax_pos |-> Append(p.ax_pos, Len(h2)),
             cb_pos |-> cb2]

\* The loop over the rows, bottom row first (axes_column[0][::-1]).
RECURSIVE ImageGridV(_, _)
ImageGridV(v0, k) ==
    IF k = 0 THEN [sizes |-> v0, ax_pos |-> <<>>, cb_pos |-> <<>>]
    ELSE LET p == ImageGridV(v0, k - 1)
             row == k - 1
             ax == axes_column[0][_nrows - 1 - row]
             v1 == IF p.sizes # <<>> THEN Append(p.sizes, VertPadEntry)
                   ELSE p.sizes
             sz == IF ax # None THEN AxesY(ax) ELSE AxesY(axes_all[0])
             before == /\ (_colorbar_mode = "each"
                           \/ (_colorbar_mode = "edge" /\ row = 0))
                       /\ _colorbar_location = "bottom"
             v2 == IF before
                   THEN v1 \o <<CbarSizeEntry, CbarPadEntry(_colorbar_pad)>>
                   ELSE v1
             cb1 == IF before THEN Append(p.cb_pos, Len(v1)) ELSE p.cb_pos
             v3 == Append(v2, sz)
             after == /\ (_colorbar_mode = "each"
                          \/ (_colorbar_mode = "edge" /\ row = _nrows - 1))
                      /\ _colorbar_location = "top"
             v4 == IF after
                   THEN v3 \o <<CbarPadEntry(_colorbar_pad), CbarSizeEntry>>
                   ELSE v3
             cb2 == IF after THEN Append(cb1, Len(v3) + 1) ELSE cb1
         IN [sizes |-> v4, ax_pos |-> Append(p.ax_pos, Len(v2)),
             cb_pos |-> cb2]

\* The two sizes the single colorbar adds in front (left, bottom) and at the
\* end (right, top) of a size list.
SingleLeadingSizes == <<CbarSizeEntry, CbarPadEntry(_colorbar_pad)>>
\* (the trailing pair in the leading pair's order)
SingleTrailingSizesSwapped == <<CbarSizeEntry, CbarPadEntry(_colorbar_pad)>>
SingleTrailingSizes == <<CbarPadEntry(_colorbar_pad), CbarSizeEntry>>

\* every colorbar axes stays visible
SingleColorbarKeep(cb, locator) ==
    [i \in DOMAIN cb |->
        IF i = 0 THEN [cb[i] EXCEPT !.locator = locator, !.visible = TRUE]
        ELSE cb[i]]

\* for i in range(ngrids): cbar_axes[i].set_visible(False);
\* cbar_axes[0].set_axes_locator(locator); cbar_axes[0].set_visible(True)
SingleColorbar(cb, locator) ==
    [i \in DOMAIN cb |->
        IF i = 0 THEN [cb[i] EXCEPT !.locator = locator, !.visible = TRUE]
        ELSE [cb[i] EXCEPT !.visible = FALSE]]

\* In mode "edge", the colorbar pass i of the locator loop places, -1 if none.
EdgeTarget(i) ==
    IF \/ (_colorbar_location = "left" /\ ColOf(i) = 0)
       \/ (_colorbar_location = "right" /\ ColOf(i) = _ncols - 1)
    THEN RowOf(i)
    ELSE IF \/ (_colorbar_location = "bottom" /\ RowOf(i) = _nrows - 1)
            \/ (_colorbar_location = "top" /\ RowOf(i) = 0)
    THEN ColOf(i)
    ELSE -1

ImageGrid_update_locators ==
    /\ pc = "update_locators"
    /\ cls = "ImageGrid"
    /\ LET mode == _colorbar_mode
           where == _colorbar_location
           pre == mode = "single" /\ where \in {"left", "bottom"}
           h0 == IF pre /\ where = "left" THEN SingleLeadingSizes ELSE <<>>
           v0 == IF pre /\ where = "bottom" THEN SingleLeadingSizes ELSE <<>>
           cb0 == IF pre
                  THEN SingleColorbar(cbar_axes,
                         IF where = "left" THEN new_locator_ny1(0, 0, -1)
                         ELSE new_locator_nx1(0, -1, 0))
                  ELSE cbar_axes
           H == ImageGridH(h0, _ncols)
           V == ImageGridV(v0, _nrows)
           nyOf(i) == V.ax_pos[(_nrows - 1 - RowOf(i)) + 1]
           loc == [i \in 0..(ngrids - 1) |->
                     new_locator(H.ax_pos[ColOf(i) + 1], nyOf(i))]
           \* the locator loop: where it raises
           failA(i) == axes_all[i] = None
           failB(i) == mode = "edge" /\ EdgeTarget(i) >= ngrids
           fails == {i \in 0..(ngrids - 1) : failA(i) \/ failB(i)}
           stop == IF fails = {} THEN ngrids ELSE Min(fails)
           also == stop < ngrids /\ ~failA(stop)
           eachLoc(i) ==
               IF where \in {"right", "left"}
               THEN new_locator(H.cb_pos[ColOf(i) + 1], nyOf(i))
               ELSE new_locator(H.ax_pos[ColOf(i) + 1],
                                V.cb_pos[(_nrows - 1 - RowOf(i)) + 1])
           edgeLoc(i) ==
               IF where \in {"left", "right"}
               THEN new_locator(H.cb_pos[1], nyOf(i))
               ELSE new_locator(H.ax_pos[ColOf(i) + 1], V.cb_pos[1])
           cb1 == [j \in DOMAIN cb0 |->
                     LET done == {i \in 0..(stop - 1) :
                                    \/ (mode = "each" /\ i = j)
                                    \/ (mode = "edge" /\ EdgeTarget(i) = j)}
                     IN IF done = {} THEN cb0[j]
                        ELSE [cb0[j] EXCEPT !.locator =
                                IF mode = "each" THEN eachLoc(Max(done))
                                ELSE edgeLoc(Max(done))]]
           \* the closing pass over the colorbar axes
           post == mode = "single" /\ where \in {"right", "top"}
           h9 == IF mode = "single" /\ where = "right"
                 THEN H.sizes \o SingleTrailingSizes
                 ELSE H.sizes
           v9 == IF mode = "single" /\ where = "top"
                 THEN V.sizes \o SingleTrailingSizes
                 ELSE V.sizes
           count == IF where \in {"right", "left"} THEN _nrows ELSE _ncols
           cb2 == IF mode = "single"
                  THEN (IF post
                        THEN SingleColorbar(cb1,
                               IF where = "right"
                               THEN new_locator_ny1(-2, 0, -1)
                               ELSE new_locator_nx1(0, -1, -2))
                        ELSE cb1)
                  ELSE IF mode = "each"
                  THEN [j \in DOMAIN cb1 |-> [cb1[j] EXCEPT !.visible = TRUE]]
                  ELSE IF mode = "edge"
                  THEN [j \in DOMAIN cb1 |->
                          IF j < count THEN [cb1[j] EXCEPT !.visible = TRUE]
                          ELSE IF count <= ngrids
                          THEN [cb1[j] EXCEPT !.visible = FALSE]
                          ELSE cb1[j]]
                  ELSE [j \in DOMAIN cb1 |->
                          [cb1[j] EXCEPT !.visible = FALSE,
                                         !.position = "degenerate"]]
           edgeFail == mode = "edge" /\ count > ngrids
       IN /\ axes' = AxesAfterLocatorLoop(stop, also, loc)
          /\ IF stop < ngrids
             THEN /\ cbar_axes' = cb1
                  /\ Raise(IF failA(stop)
                           THEN "AttributeError: set_axes_locator on None"
                           ELSE "IndexError: cbar_axes")
                  /\ UNCHANGED _divider
             ELSE /\ cbar_axes' = cb2
                  /\ IF edgeFail
                     THEN /\ Raise("IndexError: cbar_axes")
                          /\ UNCHANGED _divider
                     ELSE /\ _divider' = [_divider EXCEPT !.horizontal = h9,
                                                          !.vertical = v9]
                          /\ pc' = "add_all" /\ err' = err
    /\ UNCHANGED <<cls, selfvars, padvars, cbvars, slotvars, fig_axes,
                   histvars>>

\* ---- step 9: add_all ----
\* for ax in self.axes_all (+ self.cbar_axes): fig.add_axes(ax).  What
\* Figure.add_axes does with None is the figure's business: it either
\* raises (none_raises) or adds nothing.
AddAll(add_all, none_raises) ==
    /\ pc = "add_all"
    /\ LET n == _nrows * _ncols
           nones == {k \in 0..(n - 1) : axes_all[k] = None}
           stop == IF nones = {} \/ ~none_raises THEN n ELSE Min(nones)
           added == {<<"axes", axes_all[k]>> :
                        k \in {j \in 0..(stop - 1) : axes_all[j] # None}}
           cbars == IF cls = "ImageGrid"
                    THEN {<<"cbar", i>> : i \in DOMAIN cbar_axes}
                    ELSE {}
           next == IF cls = "ImageGrid" THEN "set_cax" ELSE "set_label_mode"
       IN IF ~add_all
          THEN /\ fig_axes' = fig_axes
               /\ pc' = next /\ err' = err
          ELSE IF stop < n
          THEN /\ fig_axes' = fig_axes \cup added
               /\ Raise("TypeError: add_axes(None)")
          ELSE /\ fig_axes' = fig_axes \cup added \cup cbars
               /\ pc' = next /\ err' = err
    /\ UNCHANGED <<cls, selfvars, padvars, cbvars, _divider, slotvars, axes,
                   cbar_axes, histvars>>

\* ---- step 10 (ImageGrid): cbar_set_cax ----
\* row and column exchanged in mode "edge"
CaxTargetSwapped(k) ==
    IF _colorbar_mode = "single" THEN 0
    ELSE IF _colorbar_mode = "edge"
    THEN (IF _colorbar_location \in {"left", "right"}
          THEN ColOf(k) ELSE RowOf(k))
    ELSE k

\* The colorbar index that pass k binds to axes_all[k].
CaxTarget(k) ==
    IF _colorbar_mode = "single" THEN 0
    ELSE IF _colorbar_mode = "edge"
    THEN (IF _colorbar_location \in {"left", "right"}
          THEN RowOf(k) ELSE ColOf(k))
    ELSE k

SetCax(cbar_set_cax) ==
    /\ pc = "set_cax"
    /\ LET \* zip() stops at the shorter list, enumerate() does not
           n == IF _colorbar_mode \in {"single", "edge"}
                THEN _nrows * _ncols ELSE ngrids
           fails == {k \in 0..(n - 1) :
                        CaxTarget(k) >= ngrids \/ axes_all[k] = None}
           stop == IF fails = {} THEN n ELSE Min(fails)
       IN IF ~cbar_set_cax
          THEN /\ axes' = axes
               /\ pc' = "set_label_mode" /\ err' = err
          ELSE /\ axes' = [id \in DOMAIN axes |->
                             LET done == {k \in 0..(stop - 1) : axes_all[k] = id}
                             IN IF done = {} THEN axes[id]
                                ELSE [axes[id] EXCEPT
                                        !.cax = CaxTarget(Max(done))]]
               /\ IF stop < n
                  THEN Raise(IF CaxTarget(stop) >= ngrids
                             THEN "IndexError: cbar_axes"
                             ELSE "AttributeError: cax on None")
                  ELSE pc' = "set_label_mode" /\ err' = err
    /\ UNCHANGED <<cls, selfvars, padvars, cbvars, _divider, slotvars,
                   cbar_axes, fig_axes, histvars>>

\* ---- set_label_mode ----
\* _tick_only: toggle(ticklabels=not bottom_on), toggle(ticklabels=not left_on)
\* the flags taken as "labels on" instead of "labels off"
_tick_only_same(ax, bottom_on, left_on) ==
    [ax EXCEPT !.bottom = bottom_on, !.left = left_on]

_tick_only(ax, bottom_on, left_on) ==
    [ax EXCEPT !.bottom = ~bottom_on, !.left = ~left_on]

\* mode "1" as one call on the lower-left axes, the others left as they are
LabelVisitsLlcOnly(mode) ==
    LET n == _nrows * _ncols IN
    IF mode = "all"
    THEN [k \in 1..n |->
            [ax |-> axes_all[k - 1], bottom_on |-> FALSE, left_on |-> FALSE]]
    ELSE IF mode = "L"
    THEN [k \in 1..n |->
            LET c == (k - 1) \div _nrows
                r == (k - 1) % _nrows
            IN [ax |-> axes_column[c][r],
                bottom_on |-> (r # _nrows - 1),
                left_on |-> (c # 0)]]
    ELSE IF mode = "1"
    THEN <<[ax |-> axes_llc, bottom_on |-> FALSE, left_on |-> FALSE]>>
    ELSE <<>>

\* The _tick_only calls set_label_mode makes, in order.
LabelVisits(mode) ==
    LET n == _nrows * _ncols IN
    IF mode = "all"
    THEN [k \in 1..n |->
            [ax |-> axes_all[k - 1], bottom_on |-> FALSE, left_on |-> FALSE]]
    ELSE IF mode = "L"
    THEN [k \in 1..n |->
            LET c == (k - 1) \div _nrows
                r == (k - 1) % _nrows
            IN [ax |-> axes_column[c][r],
                bottom_on |-> (r # _nrows - 1),
                left_on |-> (c # 0)]]
    ELSE IF mode = "1"
    THEN [k \in 1..(n + 1) |->
            IF k <= n
            THEN [ax |-> axes_all[k - 1], bottom_on |-> TRUE, left_on |-> TRUE]
            ELSE [ax |-> axes_llc, bottom_on |-> FALSE, left_on |-> FALSE]]
    ELSE <<>>

\* The first _tick_only call of V that is made on None, Len(V) + 1 if none.
LabelStop(V) ==
    LET bad == {k \in 1..Len(V) : V[k].ax = None}
    IN IF bad = {} THEN Len(V) + 1 ELSE Min(bad)

\* The axes objects ax0 after the calls of V before call number stop: the
\* last call made on an axes decides its two settings.
AxesAfterLabelPass(ax0, V, stop) ==
    [id \in DOMAIN ax0 |->
        LET done == {k \in 1..(stop - 1) : V[k].ax = id}
        IN IF done = {} THEN ax0[id]
           ELSE _tick_only(ax0[id], V[Max(done)].bottom_on,
                           V[Max(done)].left_on)]

LabelModeBody(mode, next) ==
    LET V == LabelVisits(mode)
        stop == LabelStop(V)
    IN /\ axes' = AxesAfterLabelPass(axes, V, stop)
       /\ last_label_mode' = mode
       /\ IF stop <= Len(V)
          THEN Raise("AttributeError: axis on None")
          ELSE pc' = next /\ err' = err
       /\ UNCHANGED <<cls, selfvars, padvars, cbvars, _divider, slotvars,
                      cbar_axes, fig_axes, last_axes_pad>>

\* the last statement of __init__
InitLabelMode(label_mode) ==
    /\ pc = "set_label_mode"
    /\ LabelModeBody(label_mode, "done")

\* ---- operations on a constructed grid ----
set_label_mode(mode) ==
    /\ pc = "done"
    /\ LabelModeBody(mode, "done")

set_axes_pad(hpad, vpad) ==
    /\ pc = "done"
    /\ _horiz_pad_size' = hpad
    /\ _vert_pad_size' = vpad
    /\ last_axes_pad' = <<hpad, vpad>>
    /\ UNCHANGED <<pc, err, cls, selfvars, cbvars, _divider, slotvars, axes,
                   cbar_axes, fig_axes, last_label_mode>>

get_axes_pad == <<_horiz_pad_size, _vert_pad_size>>

\* The length a size entry of the divider reads now: the shared pad objects
\* read their current fixed_size.
SizeValue(e) ==
    IF e.src = "_horiz_pad_size" THEN _horiz_pad_size
    ELSE IF e.src = "_vert_pad_size" THEN _vert_pad_size
    ELSE e.val

\* ---- the program ----
Next ==
    \/ \E c \in Classes, nr \in 1..MaxRows, nc \in 1..MaxCols,
          given \in BOOLEAN :
          \E ng \in (IF given THEN 0..(nr * nc + 1) ELSE {0}) :
              InitGeometry(c, nr, nc, given, ng)
    \/ \E hpad \in PadValues, vpad \in PadValues : _init_axes_pad(hpad, vpad)
    \/ \E mode \in CbarModes, location \in Locations \cup {BadLocation},
          pad_given \in BOOLEAN :
          \E cbar_pad \in (IF pad_given THEN PadValues ELSE {0}) :
              InitColorbar(mode, location, pad_given, cbar_pad)
    \/ \E direction \in Directions \cup {BadDirection} :
          CheckDirection(direction)
    \/ \E rect \in Rects : MakeDivider(rect)
    \/ CreateAxes
    \/ CreateCbarAxes
    \/ Grid_update_locators
    \/ ImageGrid_update_locators
    \/ \E add_all \in BOOLEAN, none_raises \in BOOLEAN :
          AddAll(add_all, none_raises)
    \/ \E cbar_set_cax \in BOOLEAN : SetCax(cbar_set_cax)
    \/ \E label_mode \in LabelModes : InitLabelMode(label_mode)
    \/ \E mode \in LabelModes : set_label_mode(mode)
    \/ \E hpad \in PadValues, vpad \in PadValues : set_axes_pad(hpad, vpad)

Spec == Init /\ [][Next]_vars

\* ---- reading the layout back from the state ----
\* The kinds of entry of a size list, by what they were built from: an axes
\* cell, a colorbar cell, a colorbar pad.
AxisCellSrc == {"axes"}
CbarCellSrc == {"_colorbar_size"}
CbarPadSrc == {"_colorbar_pad"}
\* An axes pad is a Fixed entry that is not the colorbar's pad.
IsAxesPad(e) == e.type = "Fixed" /\ e.src # "_colorbar_pad"

\* The Python positions of a size list whose entry is of one of the kinds.
Positions(seq, kinds) == {p \in 0..(Len(seq) - 1) : seq[p + 1].src \in kinds}

\* Python position of the k-th (0-based) axes cell of a size list.
NthAxisCell(seq, k) ==
    CHOOSE p \in Positions(seq, AxisCellSrc) :
        Cardinality({q \in Positions(seq, AxisCellSrc) : q < p}) = k

Horizontal == _divider.horizontal
Vertical == _divider.vertical
FullyPopulated == ngrids = _nrows * _ncols
Swap(p) == <<p[2], p[1]>>

\* ---- C1 ----
\* C1: _get_col_row maps the slot indices 0..ngrids-1 to ngrids pairwise
\* distinct (col, row) pairs inside the nrows x ncols grid, for both
\* directions, and the pair of index n under direction "row" on an
\* nrows x ncols grid is the pair under "column" on an ncols x nrows grid with
\* col and row swapped.
C1_ColRowMapping ==
    _direction \in Directions =>
        /\ \A n \in 0..(ngrids - 1) :
              /\ ColOf(n) \in 0..(_ncols - 1)
              /\ RowOf(n) \in 0..(_nrows - 1)
        /\ Cardinality({ColRow(n) : n \in 0..(ngrids - 1)}) = ngrids
        /\ \A n \in 0..(_nrows * _ncols - 1) :
              _get_col_row("row", _nrows, _ncols, n)
                 = Swap(_get_col_row("column", _ncols, _nrows, n))

\* a column-major, non-square grid whose slots have been assigned
C1_Witness ==
    /\ pc = "update_locators"
    /\ _direction = "column"
    /\ _nrows = 1 /\ _ncols = 2 /\ ngrids = 2
    /\ axes_row[0][1] = 2

\* a partially filled column-major grid whose slots have been assigned
C1_WitnessPartial ==
    /\ axes_row # <<>>
    /\ _direction = "column"
    /\ _nrows = 2 /\ _ncols = 2 /\ ngrids = 3
    /\ axes_row[1][1] = None

\* ---- C2 ----
\* The locator the layout computes for the cell of column col, row `row`.
CellLocator(col, row) ==
    new_locator(NthAxisCell(Horizontal, col),
                NthAxisCell(Vertical, _nrows - 1 - row))

\* C2: in every constructed grid, for every slot index i with
\* (col, row) = _get_col_row(i), the axes that holds the locator of cell
\* (col, row) is the axes stored at axes_row[row][col] = axes_column[col][row];
\* and axes_llc is located at the first horizontal and the bottom vertical
\* axes cell.
C2_SlotLocatorConsistent ==
    pc = "done" =>
        /\ \A i \in 0..(ngrids - 1) :
              LET col == ColOf(i)
                  row == RowOf(i)
                  holders == {id \in DOMAIN axes :
                                 axes[id].locator = CellLocator(col, row)}
              IN /\ holders = {axes_row[row][col]}
                 /\ axes_row[row][col] = axes_column[col][row]
        /\ axes[axes_llc].locator = CellLocator(0, _nrows - 1)

\* ---- C3 ----
ValidationErrors ==
    {"Exception: ngrids", "ValueError: direction", "Exception: rect"}
NothingCreated == axes = <<>> /\ cbar_axes = <<>> /\ fig_axes = {}

\* C3: a constructor call with an explicit ngrids outside (0, nrows*ncols],
\* a direction other than "row"/"column" or a rect sequence of a length
\* other than 3 or 4 raises, and when that error is raised no axes and no
\* colorbar axes exists, has a locator or is in the figure.
C3_ValidationAtomic ==
    [][/\ \A c \in Classes, nr \in 1..MaxRows, nc \in 1..MaxCols :
            \A ng \in 0..(nr * nc + 1) :
               (~(0 < ng /\ ng <= nr * nc) /\ InitGeometry(c, nr, nc, TRUE, ng))
                  => (pc' = "raised" /\ err' = "Exception: ngrids")
       /\ CheckDirection(BadDirection)
             => (pc' = "raised" /\ err' = "ValueError: direction")
       /\ \A rect \in {"len2", "len5"} :
             MakeDivider(rect) => (pc' = "raised" /\ err' = "Exception: rect")
       /\ err' \in ValidationErrors => (pc' = "raised" /\ NothingCreated')
      ]_vars

C3_Witness ==
    /\ pc = "raised"
    /\ err = "Exception: rect"
    /\ cls = "ImageGrid"
    /\ NothingCreated

\* ---- C4 ----
\* The axes in slot (row, col).
SlotAxes(row, col) == axes[axes_row[row][col]]

\* C4: on a fully populated grid, after set_label_mode(mode): "all" shows
\* left and bottom tick labels everywhere; "L" shows left labels exactly in
\* column 0 and bottom labels exactly in the last row; "1" shows both on the
\* lower-left axes (column 0, last row) and none anywhere else.
C4_LabelModes ==
    (pc = "done" /\ FullyPopulated) =>
        \A row \in 0..(_nrows - 1), col \in 0..(_ncols - 1) :
            LET a == SlotAxes(row, col)
                llc == (col = 0 /\ row = _nrows - 1)
            IN /\ last_label_mode = "all" => (a.left /\ a.bottom)
               /\ last_label_mode = "L" =>
                     /\ a.left = (col = 0)
                     /\ a.bottom = (row = _nrows - 1)
               /\ last_label_mode = "1" =>
                     /\ a.left = llc
                     /\ a.bottom = llc

\* the 2x2 scenario: mode "1" set after another mode was in force
C4_Witness ==
    /\ pc = "done"
    /\ _nrows = 2 /\ _ncols = 2 /\ FullyPopulated
    /\ last_label_mode = "1"
    /\ last_axes_pad # <<>>
    /\ SlotAxes(1, 0).left /\ SlotAxes(1, 0).bottom
    /\ ~SlotAxes(0, 0).left /\ ~SlotAxes(0, 1).bottom /\ ~SlotAxes(1, 1).left

\* ---- C5 ----
\* What set_axes_pad must leave alone: which kind of entry sits where in
\* the two size lists, and every locator and colorbar visibility.
Shape(seq) == [p \in 1..Len(seq) |-> <<seq[p].type, seq[p].src>>]
Placement ==
    <<Shape(Horizontal), Shape(Vertical),
      Cardinality(Positions(Horizontal, AxisCellSrc)),
      Cardinality(Positions(Vertical, AxisCellSrc)),
      [id \in DOMAIN axes |-> axes[id].locator],
      [i \in DOMAIN cbar_axes |-> cbar_axes[i].locator],
      [i \in DOMAIN cbar_axes |-> cbar_axes[i].visible]>>

\* Every axes pad of the divider reads the pair <<h, v>>.
PadsRead(h, v) ==
    /\ \A p \in 1..Len(Horizontal) :
          IsAxesPad(Horizontal[p]) => SizeValue(Horizontal[p]) = h
    /\ \A p \in 1..Len(Vertical) :
          IsAxesPad(Vertical[p]) => SizeValue(Vertical[p]) = v

\* C5: after any sequence of set_axes_pad((h, v)) calls, get_axes_pad()
\* returns the pair of the last call and every axes pad of the horizontal
\* list reads h, of the vertical list reads v; a set_axes_pad call changes
\* neither the lists' length and entry order, nor the number of axes cells,
\* nor any locator, nor any colorbar's visibility.
C5_SetAxesPadInPlace ==
    /\ []((pc = "done" /\ last_axes_pad # <<>>) =>
            /\ get_axes_pad = last_axes_pad
            /\ PadsRead(last_axes_pad[1], last_axes_pad[2]))
    /\ [][\A h \in PadValues, v \in PadValues :
             set_axes_pad(h, v) =>
                /\ get_axes_pad' = <<h, v>>
                /\ PadsRead(h, v)'
                /\ Placement' = Placement
         ]_vars

\* an image grid with colorbars whose pads were changed after construction
C5_Witness ==
    /\ pc = "done"
    /\ cls = "ImageGrid"
    /\ _colorbar_mode = "each"
    /\ _ncols = 2 /\ _nrows = 2
    /\ last_axes_pad = <<1, 0>>
    /\ get_axes_pad = <<1, 0>>
    /\ _colorbar_pad = 0 /\ _colorbar_location = "left"

\* ---- C6 ----
\* C6: in a constructed, fully populated ImageGrid: mode none hides every
\* colorbar axes and gives it the degenerate rectangle; "each" shows all;
\* "edge" shows exactly the first nrows (left/right) or ncols (top/bottom);
\* "single" shows colorbar 0 only.
C6_ColorbarVisibility ==
    (pc = "done" /\ cls = "ImageGrid" /\ FullyPopulated) =>
        \A i \in DOMAIN cbar_axes :
            LET cb == cbar_axes[i]
                count == IF _colorbar_location \in {"left", "right"}
                         THEN _nrows ELSE _ncols
            IN /\ _colorbar_mode = "none" =>
                     (~cb.visible /\ cb.position = "degenerate")
               /\ _colorbar_mode = "each" => cb.visible
               /\ _colorbar_mode = "edge" => (cb.visible <=> i < count)
               /\ _colorbar_mode = "single" => (cb.visible <=> i = 0)

C6_Witness ==
    /\ pc = "done"
    /\ cls = "ImageGrid"
    /\ _colorbar_mode = "edge" /\ _colorbar_location = "top"
    /\ _nrows = 2 /\ _ncols = 1
    /\ cbar_axes[0].visible /\ ~cbar_axes[1].visible

C6_WitnessSingle ==
    /\ pc = "done"
    /\ cls = "ImageGrid"
    /\ _colorbar_mode = "single" /\ _colorbar_location = "left"
    /\ ngrids = 4
    /\ cbar_axes[0].visible /\ ~cbar_axes[3].visible

\* ---- C7 ----
\* How the divider reads a locator index: an index into the n+1 cell
\* boundaries of a list of n sizes, negative from the end; an end index
\* that was not given is the next boundary.
Boundary(idx, n) == IF idx < 0 THEN n + 1 + idx ELSE idx
SpanX(loc, seq) ==
    <<Boundary(loc.nx, Len(seq)),
      Boundary(IF "nx1" \in DOMAIN loc THEN loc.nx1 ELSE loc.nx + 1, Len(seq))>>
SpanY(loc, seq) ==
    <<Boundary(loc.ny, Len(seq)),
      Boundary(IF "ny1" \in DOMAIN loc THEN loc.ny1 ELSE loc.ny + 1, Len(seq))>>
\* the cells (Python positions) between two boundaries
Cells(span) == span[1]..(span[2] - 1)
Whole(seq) == <<0, Len(seq)>>

\* C7: in mode "single" the two size lists hold exactly one colorbar-size
\* entry, the outermost entry on the side the location names with the
\* colorbar pad next to it, and the locator of colorbar 0 selects exactly
\* that entry and spans the whole other direction.
C7_SingleColorbarCell ==
    (pc = "done" /\ cls = "ImageGrid" /\ _colorbar_mode = "single") =>
        LET cbH == Positions(Horizontal, CbarCellSrc)
            cbV == Positions(Vertical, CbarCellSrc)
            padH == Positions(Horizontal, CbarPadSrc)
            padV == Positions(Vertical, CbarPadSrc)
            loc == cbar_axes[0].locator
            lastH == Len(Horizontal) - 1
            lastV == Len(Vertical) - 1
        IN /\ Cardinality(cbH) + Cardinality(cbV) = 1
           /\ _colorbar_location = "right" =>
                 /\ cbH = {lastH} /\ padH = {lastH - 1}
                 /\ \A p \in Positions(Horizontal, AxisCellSrc) : p < lastH
                 /\ Cells(SpanX(loc, Horizontal)) = cbH
                 /\ SpanY(loc, Vertical) = Whole(Vertical)
           /\ _colorbar_location = "left" =>
                 /\ cbH = {0} /\ padH = {1}
                 /\ Cells(SpanX(loc, Horizontal)) = cbH
                 /\ SpanY(loc, Vertical) = Whole(Vertical)
           /\ _colorbar_location = "top" =>
                 /\ cbV = {lastV} /\ padV = {lastV - 1}
                 /\ Cells(SpanY(loc, Vertical)) = cbV
                 /\ SpanX(loc, Horizontal) = Whole(Horizontal)
           /\ _colorbar_location = "bottom" =>
                 /\ cbV = {0} /\ padV = {1}
                 /\ Cells(SpanY(loc, Vertical)) = cbV
                 /\ SpanX(loc, Horizontal) = Whole(Horizontal)

C7_Witness ==
    /\ pc = "done"
    /\ cls = "ImageGrid"
    /\ _colorbar_mode = "single" /\ _colorbar_location = "right"
    /\ _ncols = 2 /\ _nrows = 2
    /\ cbar_axes[0].locator = new_locator_ny1(-2, 0, -1)
    /\ Len(Horizontal) = 5

C7_WitnessBottom ==
    /\ pc = "done"
    /\ cls = "ImageGrid"
    /\ _colorbar_mode = "single" /\ _colorbar_location = "bottom"
    /\ cbar_axes[0].locator = new_locator_nx1(0, -1, 0)
    /\ Vertical[1].src \in CbarCellSrc

\* ---- C8 ----
\* C8: in a fully populated ImageGrid built with cbar_set_cax: in mode
\* "each" axes i has cax = cbar_axes[i], whose locator equals the axes' on
\* the other direction and is 2 before (left, bottom) or 2 after (right,
\* top) the axes cell, the colorbar pad between them; in mode "edge" the
\* list of the location's direction holds one colorbar cell, outside the
\* outermost axes cell, there is one colorbar per row (left/right) or column
\* (top/bottom), and the cax of an axes is the colorbar of its row/column.
C8_ColorbarBesideCells ==
    (/\ pc = "done" /\ cls = "ImageGrid" /\ FullyPopulated
     /\ \A id \in DOMAIN axes : axes[id].cax # -1) =>
        LET horiz == _colorbar_location \in {"left", "right"}
            seq == IF horiz THEN Horizontal ELSE Vertical
            along(l) == IF horiz THEN l.nx ELSE l.ny
            across(l) == IF horiz THEN l.ny ELSE l.nx
            d == IF _colorbar_location \in {"right", "top"} THEN 1 ELSE -1
            count == IF horiz THEN _nrows ELSE _ncols
            axcells == Positions(seq, AxisCellSrc)
            outer == IF d = 1 THEN Max(axcells) ELSE Min(axcells)
        IN /\ _colorbar_mode = "each" =>
                 \A i \in 0..(ngrids - 1) :
                    LET a == axes[axes_all[i]]
                        c == cbar_axes[i].locator
                    IN /\ a.cax = i
                       /\ DOMAIN c = {"nx", "ny"}
                       /\ across(c) = across(a.locator)
                       /\ along(c) = along(a.locator) + 2 * d
                       /\ seq[along(c) + 1].src \in CbarCellSrc
                       /\ seq[along(a.locator) + d + 1].src \in CbarPadSrc
           /\ _colorbar_mode = "edge" =>
                 /\ Positions(seq, CbarCellSrc) = {outer + 2 * d}
                 /\ seq[outer + d + 1].src \in CbarPadSrc
                 /\ Positions(seq, CbarCellSrc) \subseteq {0, Len(seq) - 1}
                 /\ Cardinality({across(cbar_axes[j].locator) :
                                    j \in 0..(count - 1)}) = count
                 /\ \A id \in DOMAIN axes :
                       LET a == axes[id]
                           c == cbar_axes[a.cax].locator
                       IN /\ a.cax < count
                          /\ DOMAIN c = {"nx", "ny"}
                          /\ across(c) = across(a.locator)
                          /\ along(c) = outer + 2 * d

C8_Witness ==
    /\ pc = "done"
    /\ cls = "ImageGrid" /\ FullyPopulated
    /\ _colorbar_mode = "edge" /\ _colorbar_location = "left"
    /\ _nrows = 2 /\ _ncols = 2
    /\ _direction = "column"
    /\ axes[axes_all[3]].cax = 1

C8_WitnessEach ==
    /\ pc = "done"
    /\ cls = "ImageGrid" /\ FullyPopulated
    /\ _colorbar_mode = "each" /\ _colorbar_location = "top"
    /\ _nrows = 2 /\ _ncols = 2
    /\ axes[axes_all[3]].cax = 3

\* ---- C9 ----
\* C9: an ImageGrid call with a cbar_location outside left/right/top/bottom
\* never gets past the creation of its colorbar axes: construction raises,
\* in every colorbar mode, and no such grid is produced.
C9_BadLocationRaises ==
    (cls = "ImageGrid" /\ _colorbar_location = BadLocation) =>
        /\ pc \in {"check_direction", "make_divider", "create_axes",
                   "create_cbar_axes", "raised"}
        /\ (pc = "raised" =>
               (err \in ValidationErrors \cup {"KeyError: orientation"}
                /\ cbar_axes = <<>> /\ fig_axes = {}))

C9_Witness ==
    /\ pc = "raised"
    /\ cls = "ImageGrid"
    /\ _colorbar_location = BadLocation
    /\ _colorbar_mode = "single"
    /\ err = "KeyError: orientation"

\* ---- C10 ----
HorizPadSrc == {"_horiz_pad_size"}
VertPadSrc == {"_vert_pad_size"}

\* pads of a list lie strictly between its first and its last axes cell
PadsInside(seq, padSrc) ==
    \A p \in Positions(seq, padSrc) :
        /\ \E q \in Positions(seq, AxisCellSrc) : q < p
        /\ \E q \in Positions(seq, AxisCellSrc) : q > p

\* cell, pad, cell, ..., cell
Alternating(seq, n, padSrc) ==
    /\ Len(seq) = 2 * n - 1
    /\ \A p \in 0..(Len(seq) - 1) :
          seq[p + 1].src \in (IF p % 2 = 0 THEN AxisCellSrc ELSE padSrc)

\* C10: in every constructed grid the horizontal list holds the horizontal
\* axes pad exactly ncols-1 times and the vertical list the vertical axes
\* pad exactly nrows-1 times, never before the first or after the last axes
\* cell; a plain Grid's lists are cell, pad, cell, ... of 2*ncols-1 and
\* 2*nrows-1 entries.
C10_AxesPadOnlyBetween ==
    pc = "done" =>
        /\ Cardinality(Positions(Horizontal, HorizPadSrc)) = _ncols - 1
        /\ Cardinality(Positions(Vertical, VertPadSrc)) = _nrows - 1
        /\ PadsInside(Horizontal, HorizPadSrc)
        /\ PadsInside(Vertical, VertPadSrc)
        /\ cls = "Grid" =>
              /\ Alternating(Horizontal, _ncols, HorizPadSrc)
              /\ Alternating(Vertical, _nrows, VertPadSrc)

\* ---- C11 ----
\* The locator loop has run to its end and the size lists are installed.
Located == pc \in {"add_all", "set_cax", "set_label_mode", "done"}

\* The locator that pass i of the locator loop assigned (to axes_all[i]).
SlotLocator(i) == axes[axes_all[i]].locator

\* C11: once the locators are assigned, in a Grid and in an ImageGrid of
\* every colorbar mode and location, for every slot index i < ngrids with
\* (col, row) = _get_col_row(i): the locator of slot i has nx = the position
\* of the col-th axes cell of the horizontal list and ny = the position of
\* the (nrows-1-row)-th axes cell, counted from the bottom, of the vertical
\* list, so row 0 is the topmost axes cell; the entries at nx and ny are
\* axes cells, never a pad or a colorbar entry; and different slot indices
\* have different (nx, ny).
C11_LocatorAtAxisCell ==
    Located =>
        /\ \A i \in 0..(ngrids - 1) :
              LET loc == SlotLocator(i)
              IN /\ axes_all[i] # None
                 /\ DOMAIN loc = {"nx", "ny"}
                 /\ loc.nx = NthAxisCell(Horizontal, ColOf(i))
                 /\ loc.ny = NthAxisCell(Vertical, _nrows - 1 - RowOf(i))
                 /\ Horizontal[loc.nx + 1].src \in AxisCellSrc
                 /\ Vertical[loc.ny + 1].src \in AxisCellSrc
                 /\ RowOf(i) = 0 =>
                       loc.ny = Max(Positions(Vertical, AxisCellSrc))
        /\ \A i \in 0..(ngrids - 1), j \in 0..(ngrids - 1) :
              i # j => SlotLocator(i) # SlotLocator(j)

\* a column-major 2x2 image grid with a colorbar left of every axes: the
\* axes cells are at horizontal positions 2 and 6
C11_Witness ==
    /\ pc = "done"
    /\ cls = "ImageGrid"
    /\ _colorbar_mode = "each" /\ _colorbar_location = "left"
    /\ _nrows = 2 /\ _ncols = 2 /\ _direction = "column"
    /\ SlotLocator(1) = new_locator(2, 0)
    /\ SlotLocator(2) = new_locator(6, 2)

\* ---- C12 ----
\* The slot indices (into axes_all) that hold an axes.
FilledSlots == {k \in DOMAIN axes_all : axes_all[k] # None}

\* C12: the construction of a Grid with 0 < ngrids < nrows*ncols, a valid
\* direction and rect and a label mode of "all", "L", "1" ends without an
\* error: no step (the locator loop, add_all, the label-mode pass) fails on
\* an empty slot; and in the constructed grid exactly ngrids slots hold an
\* axes, each with a locator, and the other nrows*ncols - ngrids are empty.
C12_PartialGridConstructible ==
    (cls = "Grid" /\ 0 < ngrids /\ ngrids < _nrows * _ncols) =>
        /\ pc = "raised" => err \in ValidationErrors
        /\ pc = "done" =>
              /\ Cardinality(FilledSlots) = ngrids
              /\ Cardinality(DOMAIN axes_all \ FilledSlots)
                    = _nrows * _ncols - ngrids
              /\ \A k \in FilledSlots : axes[axes_all[k]].locator # NoLocator

\* ---- C13 ----
\* The left and bottom tick-label visibility of every axes of a.
Labels(a) == [id \in DOMAIN a |-> <<a[id].left, a[id].bottom>>]

\* The axes objects with every tick-label setting replaced by left = l,
\* bottom = b: a starting state for a set_label_mode call.
StartingAxes(l, b) ==
    [id \in DOMAIN axes |-> [axes[id] EXCEPT !.left = l, !.bottom = b]]

\* What the body of set_label_mode(mode) makes of the axes objects ax0.
Relabelled(mode, ax0) ==
    AxesAfterLabelPass(ax0, LabelVisits(mode), LabelStop(LabelVisits(mode)))

\* C13: on a fully populated grid, after any sequence of set_label_mode
\* calls with modes "all", "L", "1" (the constructor's included), the left
\* and bottom tick-label visibility of every axes is what the last call
\* makes of any starting state; a further call of any mode gives a result
\* that does not depend on the state it is made in, so every call
\* overwrites both settings of every axes; and repeating the last call
\* changes nothing.
C13_LabelModeLastCallWins ==
    (pc = "done" /\ FullyPopulated) =>
        /\ \A l \in BOOLEAN, b \in BOOLEAN :
              Labels(axes) = Labels(Relabelled(last_label_mode, StartingAxes(l, b)))
        /\ \A mode \in LabelModes :
              /\ LabelStop(LabelVisits(mode)) = Len(LabelVisits(mode)) + 1
              /\ \A id \in DOMAIN axes :
                    \E k \in 1..Len(LabelVisits(mode)) :
                        LabelVisits(mode)[k].ax = id
              /\ \A l \in BOOLEAN, b \in BOOLEAN :
                    Labels(Relabelled(mode, axes))
                       = Labels(Relabelled(mode, StartingAxes(l, b)))
              /\ Relabelled(mode, Relabelled(mode, axes)) = Relabelled(mode, axes)
        /\ Relabelled(last_label_mode, axes) = axes

\* a 2x2 grid on which mode "L" is in force: the next call of mode "1"
\* changes two axes (top left, bottom right), a call of mode "L" none
C13_Witness ==
    /\ pc = "done"
    /\ _nrows = 2 /\ _ncols = 2 /\ FullyPopulated
    /\ last_label_mode = "L"
    /\ Labels(axes) = Labels(Relabelled("L", StartingAxes(FALSE, FALSE)))
    /\ Cardinality({id \in DOMAIN axes :
                       Relabelled("1", axes)[id] # axes[id]}) = 2
    /\ Relabelled("L", axes) = axes

====
